---- MODULE Spec2Model ----
(***************************************************************************)
(* Model of termu (src/lib.rs): Terminal::open / kill / wait / resize and  *)
(* the liveness-checked descriptor wrapper IoFd, over an explicit model of *)
(* the calling process's descriptor table, the PTY pairs, the launch       *)
(* specifications (std::process::Command) and the spawned children.        *)
(* Spec runs the Terminal API; SpecIo runs the IoFd calls, step by step,   *)
(* against a second thread that closes and opens descriptors.              *)
(***************************************************************************)
EXTENDS Integers, Sequences, FiniteSets, TLC

\* ---------------------------------------------------------------- bounds
MaxOpens == 2   \* Terminal::open calls made in one run (one PTY pair each)
MaxFd    == 13  \* highest descriptor number of a process (RLIMIT_NOFILE - 1)
MaxOob   == 1   \* out-of-band close()s, and open()s, done by another thread

Cmds    == {"c1"}                \* launch specifications the caller owns
Sizes   == {24, 80}              \* Winsize values passed to resize
Handles == {"stdin", "stdout"}   \* Terminal.stdin / Terminal.stdout
Ops     == {"read", "write", "flush"}
Terms   == 1 .. MaxOpens
FdNums  == 0 .. MaxFd
NoFd    == -1

\* ------------------------------------------------- descriptors and files
\* An open file: the owner (master) or subordinate (slave) end of PTY pair
\* p, the process's own terminal on 0/1/2, or some other file.
Master(p) == <<"M", p>>
Slave(p)  == <<"S", p>>
Other     == <<"X", 0>>
OwnTty    == <<"T", 0>>
NoFile    == <<"-", 0>>
Closed    == [file |-> NoFile, cx |-> FALSE]

IsOpen(tab, fd) == fd \in DOMAIN tab /\ tab[fd].file # NoFile
IsTty(f) == f[1] \in {"M", "S", "T"}

\* The kernel hands out the lowest free descriptor number >= lo.
HasFree(tab, lo) == \E f \in lo .. MaxFd : ~IsOpen(tab, f)
LowestFree(tab, lo) ==
    CHOOSE f \in lo .. MaxFd :
        ~IsOpen(tab, f) /\ \A g \in lo .. (f - 1) : IsOpen(tab, g)

Install(tab, fd, f, cx) == [tab EXCEPT ![fd] = [file |-> f, cx |-> cx]]
CloseFd(tab, fd) == IF IsOpen(tab, fd) THEN [tab EXCEPT ![fd] = Closed] ELSE tab
RECURSIVE CloseAll(_, _)
CloseAll(tab, fds) ==
    IF fds = <<>> THEN tab ELSE CloseAll(CloseFd(tab, Head(fds)), Tail(fds))

\* fcntl(fd, F_GETFD): the descriptor flags, or -1 (EBADF).
FcntlGetFd(tab, fd) == IF IsOpen(tab, fd) THEN (IF tab[fd].cx THEN 1 ELSE 0) ELSE -1
\* fcntl(fd, F_SETFD(flags | FD_CLOEXEC))
SetCloexec(tab, fd) == [tab EXCEPT ![fd].cx = TRUE]

\* OwnedFd::try_clone / BorrowedFd::try_clone_to_owned / File::try_clone:
\* fcntl(F_DUPFD_CLOEXEC, 3).  The number the duplicate gets.
DupTarget(tab, fd) == LowestFree(tab, 3)
\* (DupInherited: a plain dup, whose result survives exec.)
DupInherited == FALSE
DupCloexec == TRUE
CanDup(tab, fd) == IsOpen(tab, fd) /\ HasFree(tab, 3)
DupFd(tab, fd) == Install(tab, DupTarget(tab, fd), tab[fd].file, DupCloexec)

VARIABLES
    fdt,      \* descriptor table of the calling process
    cmd,      \* the launch specifications: bound stdio, pre_exec hooks
    term,     \* the Terminal made by the k-th open call
    child,    \* the child process spawned by the k-th open call
    opens,    \* number of open calls made
    winsz,    \* window size of PTY pair k (0: never set)
    outbuf,   \* bytes child k wrote that wait to be read on the owner side
    call,     \* the IoFd read/write/flush call in progress (or just returned)
    oob,      \* out-of-band activity of another thread: closes, opens
    ret       \* the last kill / wait / resize call and what it returned

vars == <<fdt, cmd, term, child, opens, winsz, outbuf, call, oob, ret>>

\* Terminal k: st is "unused" before the k-th open call, then "live" (open
\* returned Ok), "failed" (open returned Err) or "dropped".  reg: the call got
\* as far as registering its pre_exec hook.  log: the hook steps its child ran.
NoTerm == [st |-> "unused", owner |-> NoFd, stdin |-> NoFd, stdout |-> NoFd,
           cmd |-> "-", reg |-> FALSE, log |-> <<>>]
\* Child k: st is "running", "zombie" (terminated, not reaped) or "reaped"
\* (std holds its exit status); status is how it ended.
NoChild == [st |-> "none", status |-> "none", fds |-> [f \in FdNums |-> Closed],
            sid |-> FALSE, ctty |-> NoFile]
\* A returned kill / wait / resize: on Terminal t, whose child was in state
\* st when the call was made; res is "Ok", "Err" or the ExitStatus of wait.
NoRet == [op |-> "-", t |-> 0, st |-> "-", res |-> "-"]
\* An IoFd call: openAtCheck is whether the wrapped number was open when
\* exists() ran, file the open file the operation was performed on, afterExit
\* whether the child had already exited when the call was made.
NoCall == [pc |-> "idle", t |-> 0, h |-> "-", op |-> "-", openAtCheck |-> FALSE,
           dupfd |-> NoFd, file |-> NoFile, res |-> "-", afterExit |-> FALSE]

Init ==
    /\ fdt = [f \in FdNums |-> IF f <= 2 THEN [file |-> OwnTty, cx |-> FALSE] ELSE Closed]
    /\ cmd = [c \in Cmds |-> [alive |-> TRUE, stdio |-> <<NoFd, NoFd, NoFd>>, hooks |-> <<>>]]
    /\ term = [k \in Terms |-> NoTerm]
    /\ child = [k \in Terms |-> NoChild]
    /\ opens = 0
    /\ winsz = [k \in Terms |-> 0]
    /\ outbuf = [k \in Terms |-> 0]
    /\ call = NoCall
    /\ oob = [closes |-> 0, opens |-> 0]
    /\ ret = NoRet

\* ------------------------------------------------------------ the child
\* State of the forked child while std's spawn prepares it: its copy of the
\* descriptor table, session leadership, controlling terminal, and the log
\* of the hook steps run so far (ok: no step has failed yet).
HookSteps == <<"close", "setsid", "ioctl">>

\* One libc call of the pre_exec closure; o_fd is the captured owner number.
\*   close(o_fd) != 0 | setsid() < 0 | ioctl(0, TIOCSCTTY, 1) != 0
SysOk(cs, step, o_fd) ==
    CASE step = "close"  -> IsOpen(cs.fds, o_fd)
      [] step = "setsid" -> ~cs.sid
      [] step = "ioctl"  -> /\ IsOpen(cs.fds, 0) /\ IsTty(cs.fds[0].file)
                            /\ cs.sid
                            /\ cs.ctty \in {NoFile, cs.fds[0].file}
SysEffect(cs, step, o_fd) ==
    CASE step = "close"  -> [cs EXCEPT !.fds = CloseFd(@, o_fd)]
      [] step = "setsid" -> [cs EXCEPT !.sid = TRUE, !.ctty = NoFile]
      [] step = "ioctl"  -> [cs EXCEPT !.ctty = cs.fds[0].file]

\* The closure body: the || chain stops at the first failing call.
RECURSIVE RunHook(_, _, _, _)
RunHook(cs, h, o_fd, i) ==
    IF i > Len(HookSteps) \/ ~cs.ok THEN cs
    ELSE LET step == HookSteps[i]
             ok   == SysOk(cs, step, o_fd)
             cs1  == IF ok THEN SysEffect(cs, step, o_fd) ELSE cs
             cs2  == [cs1 EXCEPT !.ok = ok,
                                 !.log = Append(@, [hook |-> h, step |-> step, ok |-> ok])]
         IN RunHook(cs2, h, o_fd, i + 1)

\* std runs the registered closures in registration order and gives up at
\* the first one that returns Err.
RECURSIVE RunHooks(_, _, _)
RunHooks(cs, hooks, h) ==
    IF h > Len(hooks) \/ ~cs.ok THEN cs
    ELSE RunHooks(RunHook(cs, h, hooks[h], 1), hooks, h + 1)

\* dup2 of the three bound stdio descriptors onto 0, 1, 2 of the child.
ChildStdio(tab, stdio) ==
    [f \in FdNums |->
        IF f <= 2 /\ stdio[f + 1] # NoFd
        THEN [file |-> tab[stdio[f + 1]].file, cx |-> FALSE]
        ELSE tab[f]]

\* exec closes every close-on-exec descriptor.
ExecFds(ctab) == [f \in FdNums |-> IF ctab[f].cx THEN Closed ELSE ctab[f]]

\* Command::spawn with pre_exec closures: fork, stdio onto 0/1/2, closures,
\* exec.  env: "fork" / "exec" make that step fail for an outside reason.
Spawn(tab, crec, env) ==
    IF env = "fork" THEN [ok |-> FALSE, log |-> <<>>, child |-> NoChild]
    ELSE LET cs0 == [fds |-> ChildStdio(tab, crec.stdio), sid |-> FALSE,
                     ctty |-> OwnTty, ok |-> TRUE, log |-> <<>>]
             cs  == RunHooks(cs0, crec.hooks, 1)
         IN IF ~cs.ok \/ env = "exec"
            THEN [ok |-> FALSE, log |-> cs.log, child |-> NoChild]
            ELSE [ok |-> TRUE, log |-> cs.log,
                  child |-> [NoChild EXCEPT !.st = "running", !.fds = ExecFds(cs.fds),
                                            !.sid = cs.sid, !.ctty = cs.ctty]]

\* ------------------------------------------------------- Terminal::open
OpenFailures == {"none", "posix_openpt", "grantpt", "unlockpt", "F_GETFD", "F_SETFD",
                 "ptsname_r", "open_pup", "stdin_clone", "stdout_clone",
                 "stderr_clone", "owner_clone_stdin", "owner_clone_stdout",
                 "fork", "exec"}

\* command.stdin/stdout/stderr(pup.try_clone()?): duplicate, then replace the
\* binding the Command held (dropping, hence closing, the old one).
BindStdio(s, pup, i, envfail) ==
    IF ~s.ok THEN s
    ELSE IF envfail \/ ~CanDup(s.tab, pup) THEN [s EXCEPT !.ok = FALSE]
    ELSE LET d == DupTarget(s.tab, pup)
         IN [s EXCEPT !.tab = CloseFd(DupFd(s.tab, pup), s.cmd.stdio[i]),
                      !.cmd.stdio[i] = d]

\* command.pre_exec(closure capturing o_fd)
\* (ReplaceHook: a Command that kept only the last closure.)
ReplaceHook(crec, o_fd) == [crec EXCEPT !.hooks = <<o_fd>>]
RegisterHook(crec, o_fd) == [crec EXCEPT !.hooks = Append(@, o_fd)]

\* IoFd(owner.as_fd().try_clone_to_owned()?): the number the new IoFd wraps.
\* (AliasOwner: wrapping the owner's own number instead of a duplicate.)
AliasOwner(tab, owner) == owner
CloneOwner(tab, owner) == DupTarget(tab, owner)

\* The whole of open on launch specification c, as the k-th call, with the
\* outside failure `fail`: the descriptor table, the Command, the Terminal
\* (or the failure) and the child it leaves behind.
OpenResult(tab, crec, c, k, fail) ==
    LET Err(t, cr, reg, lg) ==
            [tab |-> t, cmd |-> cr, child |-> NoChild,
             term |-> [NoTerm EXCEPT !.st = "failed", !.cmd = c, !.reg = reg,
                                     !.log = lg]]
    IN
    IF fail = "posix_openpt" \/ ~HasFree(tab, 0)
    THEN Err(tab, crec, FALSE, <<>>)
    ELSE
    LET owner == LowestFree(tab, 0)
        t1    == Install(tab, owner, Master(k), FALSE)
    IN
    IF fail \in {"grantpt", "unlockpt", "F_GETFD", "F_SETFD"} \/ FcntlGetFd(t1, owner) = -1
    THEN Err(CloseFd(t1, owner), crec, FALSE, <<>>)
    ELSE
    LET t2 == SetCloexec(t1, owner) IN
    IF fail \in {"ptsname_r", "open_pup"} \/ ~HasFree(t2, 0)
    THEN Err(CloseFd(t2, owner), crec, FALSE, <<>>)
    ELSE
    LET pup == LowestFree(t2, 0)
        t3  == Install(t2, pup, Slave(k), TRUE)
        b0  == [ok |-> TRUE, tab |-> t3, cmd |-> crec]
        b1  == BindStdio(b0, pup, 1, fail = "stdin_clone")
        b2  == BindStdio(b1, pup, 2, fail = "stdout_clone")
        b3  == BindStdio(b2, pup, 3, fail = "stderr_clone")
    IN
    IF ~b3.ok
    THEN Err(CloseAll(b3.tab, <<pup, owner>>), b3.cmd, FALSE, <<>>)
    ELSE
    LET cr == RegisterHook(b3.cmd, owner) IN
    IF fail = "owner_clone_stdin" \/ ~CanDup(b3.tab, owner)
    THEN Err(CloseAll(b3.tab, <<pup, owner>>), cr, TRUE, <<>>)
    ELSE
    LET in == CloneOwner(b3.tab, owner)
        t4 == Install(b3.tab, in, b3.tab[owner].file, DupCloexec)
    IN
    IF fail = "owner_clone_stdout" \/ ~CanDup(t4, owner)
    THEN Err(CloseAll(t4, <<in, pup, owner>>), cr, TRUE, <<>>)
    ELSE
    LET out == CloneOwner(t4, owner)
        t5  == Install(t4, out, t4[owner].file, DupCloexec)
        sp  == Spawn(t5, cr, fail)
    IN
    IF ~sp.ok
    THEN Err(CloseAll(t5, <<in, out, pup, owner>>), cr, TRUE, sp.log)
    ELSE [tab |-> CloseFd(t5, pup), cmd |-> cr, child |-> sp.child,
          term |-> [NoTerm EXCEPT !.st = "live", !.owner = owner, !.stdin = in,
                                  !.stdout = out, !.cmd = c, !.reg = TRUE,
                                  !.log = sp.log]]

Open(c, fail) ==
    /\ opens < MaxOpens
    /\ cmd[c].alive
    /\ call.pc = "idle"
    /\ LET k == opens + 1
           r == OpenResult(fdt, cmd[c], c, k, fail)
       IN /\ fdt' = r.tab
          /\ cmd' = [cmd EXCEPT ![c] = r.cmd]
          /\ term' = [term EXCEPT ![k] = r.term]
          /\ child' = [child EXCEPT ![k] = r.child]
          /\ opens' = k
    /\ UNCHANGED <<winsz, outbuf, call, oob, ret>>

\* ----------------------------------------------- kill / wait / resize
\* Child::kill: SIGKILL to a child that has not been reaped (a running child
\* cannot catch it and is taken to die at once; one that already terminated
\* keeps its status); a child whose status std has cached is left alone.
KillChild(ch) ==
    IF ch.st = "running" THEN [ch EXCEPT !.st = "zombie", !.status = "sig9"] ELSE ch
\* What kill returns: Ok for a child not yet reaped; for a reaped one Ok or
\* an InvalidInput error, depending on the version of std.
KillResults(ch) == IF ch.st = "reaped" THEN {"Ok", "Err"} ELSE {"Ok"}

Kill(k, r) ==
    /\ term[k].st = "live"
    /\ call.pc # "done"
    /\ r \in KillResults(child[k])
    /\ child' = [child EXCEPT ![k] = KillChild(@)]
    /\ ret' = [op |-> "kill", t |-> k, st |-> child[k].st, res |-> r]
    /\ UNCHANGED <<fdt, cmd, term, opens, winsz, outbuf, call, oob>>

\* Child::wait blocks until the child has terminated.  std keeps the exit
\* status it reaped, and a later wait returns that status again.
WaitBlocks(ch) == ch.st = "running"
\* (WaitValueReap: waitpid on every call, ECHILD once the child is reaped.)
WaitValueReap(ch) == IF ch.st = "reaped" THEN "Err" ELSE ch.status
WaitValue(ch) == ch.status

Wait(k) ==
    /\ term[k].st = "live"
    /\ call.pc # "done"
    /\ ~WaitBlocks(child[k])
    /\ child' = [child EXCEPT ![k].st = "reaped"]
    /\ ret' = [op |-> "wait", t |-> k, st |-> child[k].st, res |-> WaitValue(child[k])]
    /\ UNCHANGED <<fdt, cmd, term, opens, winsz, outbuf, call, oob>>

\* ioctl(owner, TIOCSWINSZ, &size) != 0: fails on a number that is not open
\* (EBADF) or is not a terminal (ENOTTY); the state of the child plays no part.
IoctlWinsz(tab, fd) == IsOpen(tab, fd) /\ tab[fd].file[1] \in {"M", "S"}
\* (ResizeTornDown: a resize that refuses once the child is gone.)
ResizeTornDown(k) ==
    IF IoctlWinsz(fdt, term[k].owner) /\ child[k].st = "running" THEN "Ok" ELSE "Err"
ResizeResult(k) == IF IoctlWinsz(fdt, term[k].owner) THEN "Ok" ELSE "Err"

Resize(k, size) ==
    /\ term[k].st = "live"
    /\ call.pc # "done"
    /\ winsz' = IF ResizeResult(k) = "Ok"
                THEN [winsz EXCEPT ![fdt[term[k].owner].file[2]] = size]
                ELSE winsz
    /\ ret' = [op |-> "resize", t |-> k, st |-> child[k].st, res |-> ResizeResult(k)]
    /\ UNCHANGED <<fdt, cmd, term, child, opens, outbuf, call, oob>>

\* ------------------------------------------------------ the environment
\* The child program ends by itself (exit 0).
ChildExit(k) ==
    /\ child[k].st = "running"
    /\ call.pc # "done"
    /\ child' = [child EXCEPT ![k] = [@ EXCEPT !.st = "zombie", !.status = "exit0"]]
    /\ UNCHANGED <<fdt, cmd, term, opens, winsz, outbuf, call, oob, ret>>

\* The child program writes to its standard output.
ChildWrite(k) ==
    /\ child[k].st = "running"
    /\ call.pc # "done"
    /\ IsOpen(child[k].fds, 1) /\ child[k].fds[1].file[1] = "S"
    /\ outbuf[child[k].fds[1].file[2]] = 0
    /\ outbuf' = [outbuf EXCEPT ![child[k].fds[1].file[2]] = 1]
    /\ UNCHANGED <<fdt, cmd, term, child, opens, winsz, call, oob, ret>>

\* The caller drops the Terminal: owner, stdin and stdout close the numbers
\* they hold (Child's drop neither kills nor reaps).
DropTerminal(k) ==
    /\ term[k].st = "live"
    /\ call.pc = "idle" \/ (call.pc # "done" /\ call.t # k)
    /\ fdt' = CloseAll(fdt, <<term[k].owner, term[k].stdin, term[k].stdout>>)
    /\ term' = [term EXCEPT ![k].st = "dropped"]
    /\ UNCHANGED <<cmd, child, opens, winsz, outbuf, call, oob, ret>>

\* The caller drops the launch specification: its bound stdio closes.
DropCommand(c) ==
    /\ cmd[c].alive
    /\ call.pc # "done"
    /\ fdt' = CloseAll(fdt, cmd[c].stdio)
    /\ cmd' = [cmd EXCEPT ![c] = [alive |-> FALSE, stdio |-> <<NoFd, NoFd, NoFd>>,
                                  hooks |-> <<>>]]
    /\ UNCHANGED <<term, child, opens, winsz, outbuf, call, oob, ret>>

\* Another thread closes the number an IoFd wraps, behind the wrapper's back.
OobClose(k, h) ==
    /\ oob.closes < MaxOob
    /\ term[k].st = "live"
    /\ call.pc # "done"
    /\ IsOpen(fdt, term[k][h])
    /\ fdt' = CloseFd(fdt, term[k][h])
    /\ oob' = [oob EXCEPT !.closes = @ + 1]
    /\ UNCHANGED <<cmd, term, child, opens, winsz, outbuf, call, ret>>

\* That thread then opens some other file: it gets the lowest free number.
OobOpen ==
    /\ oob.opens < oob.closes
    /\ call.pc # "done"
    /\ HasFree(fdt, 0)
    /\ fdt' = Install(fdt, LowestFree(fdt, 0), Other, FALSE)
    /\ oob' = [oob EXCEPT !.opens = @ + 1]
    /\ UNCHANGED <<cmd, term, child, opens, winsz, outbuf, call, ret>>

\* ------------------------------------------------------------------ IoFd
\* IoFd::exists: fcntl(fd, F_GETFD).unwrap_or(-1) != -1
\* (ExistsCached: liveness assumed instead of asked of the kernel.)
ExistsCached(tab, fd) == TRUE
Exists(tab, fd) == FcntlGetFd(tab, fd) # -1

\* Some descriptor of the subordinate side of pair p is open somewhere: in
\* the calling process (the Command's stdio included) or in a running child.
SlaveOpen(p) ==
    \/ \E f \in FdNums : fdt[f].file = Slave(p)
    \/ \E k \in Terms : child[k].st = "running"
                        /\ \E f \in FdNums : child[k].fds[f].file = Slave(p)
MasterOpen(p) == \E f \in FdNums : fdt[f].file = Master(p)

\* The results File::read / write / flush can give on open file f; the empty
\* set means the call blocks.  A PTY owner end with nothing to read blocks
\* while the subordinate side is open anywhere and fails (EIO) once it is
\* not; File::flush does nothing and returns Ok.
FileOp(f, op) ==
    CASE f = NoFile   -> {"OsError"}
      [] op = "flush" -> {"Ok"}
      [] op = "write" -> IF f[1] = "M" /\ ~SlaveOpen(f[2]) THEN {"Ok", "OsError"}
                         ELSE IF f[1] = "S" /\ ~MasterOpen(f[2]) THEN {"OsError"}
                         ELSE {"Ok"}
      [] op = "read"  -> IF f[1] = "M"
                         THEN IF outbuf[f[2]] > 0 THEN {"Ok"}
                              ELSE IF SlaveOpen(f[2]) THEN {} ELSE {"OsError"}
                         ELSE IF f[1] = "S"
                         THEN IF MasterOpen(f[2]) THEN {} ELSE {"OsError"}
                         ELSE {"Ok"}

\* read / write / flush, first statement: match self.exists()
CallCheck(k, h, op) ==
    /\ call.pc = "idle"
    /\ term[k].st = "live"
    /\ LET fd == term[k][h]
       IN call' = [NoCall EXCEPT
                     !.t = k, !.h = h, !.op = op,
                     !.openAtCheck = IsOpen(fdt, fd),
                     !.afterExit = (child[k].st # "running"),
                     !.pc = IF Exists(fdt, fd) THEN "dup" ELSE "done",
                     !.res = IF Exists(fdt, fd) THEN "-" ELSE "BrokenPipe"]
    /\ UNCHANGED <<fdt, cmd, term, child, opens, winsz, outbuf, oob, ret>>

\* true => File::from(self.0.try_clone()?): the duplication, which fails on a
\* number closed since the check (EBADF) or on a full table (EMFILE).
CallDup(envfail) ==
    /\ call.pc = "dup"
    /\ LET fd == term[call.t][call.h]
       IN IF CanDup(fdt, fd) /\ ~envfail
          THEN /\ fdt' = DupFd(fdt, fd)
               /\ call' = [call EXCEPT !.pc = "io", !.dupfd = DupTarget(fdt, fd),
                                       !.file = fdt[fd].file]
          ELSE /\ fdt' = fdt
               /\ call' = [call EXCEPT !.pc = "done", !.res = "OsError"]
    /\ UNCHANGED <<cmd, term, child, opens, winsz, outbuf, oob, ret>>

\* .read(buf) / .write(buf) / .flush() on the fresh File, which is then
\* dropped (closing the duplicate).
CallIo(r) ==
    /\ call.pc = "io"
    /\ LET f == IF IsOpen(fdt, call.dupfd) THEN fdt[call.dupfd].file ELSE NoFile
       IN /\ r \in FileOp(f, call.op)
          /\ call' = [call EXCEPT !.pc = "done", !.res = r, !.file = f]
          /\ outbuf' = IF call.op = "read" /\ f[1] = "M" /\ r = "Ok"
                       THEN [outbuf EXCEPT ![f[2]] = 0] ELSE outbuf
    /\ fdt' = CloseFd(fdt, call.dupfd)
    /\ UNCHANGED <<cmd, term, child, opens, winsz, oob, ret>>

\* The call returns to its caller.
CallReturn ==
    /\ call.pc = "done"
    /\ call' = NoCall
    /\ UNCHANGED <<fdt, cmd, term, child, opens, winsz, outbuf, oob, ret>>

\* The Terminal API (open, kill, wait, resize, drops) with the child's exit.
Next ==
    \/ \E c \in Cmds, fail \in OpenFailures : Open(c, fail)
    \/ \E k \in Terms, r \in {"Ok", "Err"} : Kill(k, r)
    \/ \E k \in Terms : Wait(k)
    \/ \E k \in Terms, size \in Sizes : Resize(k, size)
    \/ \E k \in Terms : ChildExit(k)
    \/ \E k \in Terms : DropTerminal(k)
    \/ \E c \in Cmds : DropCommand(c)

Spec == Init /\ [][Next]_vars

\* The IoFd API on the handles open returns, with the child, the drops and a
\* second thread that closes and opens descriptors out of band.
NextIo ==
    \/ \E c \in Cmds, fail \in OpenFailures : Open(c, fail)
    \/ \E k \in Terms : ChildExit(k)
    \/ \E k \in Terms : ChildWrite(k)
    \/ \E c \in Cmds : DropCommand(c)
    \/ \E k \in Terms, h \in Handles : OobClose(k, h)
    \/ OobOpen
    \/ \E k \in Terms, h \in Handles, op \in Ops : CallCheck(k, h, op)
    \/ \E envfail \in BOOLEAN : CallDup(envfail)
    \/ \E r \in {"Ok", "OsError"} : CallIo(r)
    \/ CallReturn

SpecIo == Init /\ [][NextIo]_vars

\* ================================================================ claims
TermFds(k) == {term[k].owner, term[k].stdin, term[k].stdout}
Succeeded(k) == term[k].st \in {"live", "dropped"}

\* C1 (as claimed): a read or write made on an owner-side handle after the
\* child has exited returns the closed-descriptor (BrokenPipe) condition
\* (a call whose duplication failed for lack of descriptors set aside).
C1_AfterExitBrokenPipe ==
    (call.pc = "done" /\ call.afterExit /\ call.op \in {"read", "write"}
                      /\ call.dupfd # NoFd)
        => call.res = "BrokenPipe"

\* What Terminal k must look like when its open returns Ok.
C2_Post(k) ==
    /\ child[k].st \in {"running", "zombie"}
    /\ term[k].stdin # NoFd /\ term[k].stdout # NoFd
    /\ Cardinality(TermFds(k)) = 3
    /\ \A f \in TermFds(k) : IsOpen(fdt, f) /\ fdt[f].file = Master(k)
    /\ Exists(fdt, term[k].stdin) /\ Exists(fdt, term[k].stdout)
\* C2: the step in which open returns Ok leaves a spawned, unreaped child and
\* stdin / stdout wrapping two distinct descriptors, both different from the
\* owner descriptor, all three open on the owner end of the same PTY pair,
\* and both reporting exists() = true.
C2_OpenOk ==
    [][\A k \in Terms : (term[k].st = "unused" /\ term'[k].st = "live") => C2_Post(k)']_vars
C2_Witness == \E k \in Terms : term[k].st = "live" /\ child[k].st = "running"

\* C3: a returned read / write / flush gave the wrapper's BrokenPipe exactly
\* when the wrapped number was not open at the check, and then nothing was
\* duplicated and no I/O done; when it was open the wrapper went on to
\* duplicate, and what it returned is the outcome of that duplicate-and-operate
\* (Ok or an OS error), with the operation done on the duplicate's file.
C3_CheckedIo ==
    call.pc = "done" =>
        /\ call.res = "BrokenPipe" <=> ~call.openAtCheck
        /\ ~call.openAtCheck => (call.dupfd = NoFd /\ call.file = NoFile)
        /\ call.openAtCheck =>
              /\ call.res \in {"Ok", "OsError"}
              /\ call.dupfd = NoFd => (call.res = "OsError" /\ call.file = NoFile)
              /\ call.dupfd # NoFd =>
                    /\ call.dupfd # term[call.t][call.h]
                    /\ call.res = "Ok" => call.file # NoFile
C3_Witness == call.pc = "done" /\ ~call.openAtCheck /\ call.res = "BrokenPipe"

C5_ResizeErrAfterTeardown ==
    ret.op = "resize" =>
        /\ ret.st = "running" => ret.res = "Ok"
        /\ ret.st = "reaped" => ret.res = "Err"

\* C5 (amended): resize on a Terminal returns Ok for every window size in
\* every state of the child (running, exited, killed, reaped), and sets the
\* window size of the pair.
C5_ResizeOk ==
    ret.op = "resize" => (ret.res = "Ok" /\ winsz[ret.t] \in Sizes)
C5_Witness ==
    ret.op = "resize" /\ ret.st = "reaped" /\ winsz[ret.t] \in Sizes

\* C6 (as claimed): after an open that returned an error there is no child
\* and no descriptor of the pair that call allocated is open in the caller.
C6_FailedOpenClean ==
    \A k \in Terms : term[k].st = "failed" =>
        /\ child[k].st = "none"
        /\ \A f \in FdNums : fdt[f].file \notin {Master(k), Slave(k)}

\* C7 (as claimed): after a successful open no descriptor of the subordinate
\* side is open in the calling process; only the child's 0, 1, 2 hold it.
C7_NoSlaveInOwner ==
    \A k \in Terms : term[k].st = "live" =>
        /\ \A f \in FdNums : fdt[f].file # Slave(k)
        /\ \A f \in 0 .. 2 : child[k].fds[f].file = Slave(k)

\* The hook steps the child of open k ran: close, setsid, ioctl per hook, in
\* that order, nothing after a failed step, and a failed step fails the open.
C8_HookLog(k) ==
    LET log == term[k].log IN
    /\ \A i \in 1 .. Len(log) :
          /\ log[i].step = <<"close", "setsid", "ioctl">>[((i - 1) % 3) + 1]
          /\ log[i].hook = ((i - 1) \div 3) + 1
          /\ i < Len(log) => log[i].ok
    /\ (\E i \in 1 .. Len(log) : ~log[i].ok) => term[k].st = "failed"
    /\ Succeeded(k) => Len(log) >= 3
\* C8: the program run in a spawned child holds no descriptor of any PTY
\* owner end, and its 0, 1, 2 are open on the subordinate end of its pair,
\* which is its controlling terminal; every hook ran close, setsid, ioctl in
\* that order, nothing ran after a failed step, and an open whose hooks had a
\* failing step returned an error.
C8_ChildFds ==
    \A k \in Terms :
        /\ C8_HookLog(k)
        /\ child[k].st # "none" =>
              /\ \A f \in FdNums : child[k].fds[f].file[1] # "M"
              /\ \A f \in 0 .. 2 : child[k].fds[f] = [file |-> Slave(k), cx |-> FALSE]
              /\ child[k].sid /\ child[k].ctty = Slave(k)
C8_Witness ==
    /\ \E k \in Terms : term[k].st = "live" /\ child[k].st = "running"
    /\ \E j \in Terms : term[j].st = "failed" /\ term[j].log # <<>>
                         /\ ~term[j].log[Len(term[j].log)].ok

\* C9 (as claimed): a read or write that returns success did its I/O on the
\* PTY owner end the handle was made for, whatever another thread closed or
\* opened meanwhile.
C9_OkOnlyOnOwnerEnd ==
    (call.pc = "done" /\ call.res = "Ok" /\ call.op \in {"read", "write"})
        => call.file = Master(call.t)

\* At most one success per launch specification; a later open on it fails.
C10_AtMostOnce ==
    /\ \A c \in Cmds : Cardinality({k \in Terms : Succeeded(k) /\ term[k].cmd = c}) <= 1
    /\ \A j, k \in Terms :
          (j < k /\ Succeeded(j) /\ term[k].st # "unused" /\ term[k].cmd = term[j].cmd)
              => /\ term[k].st = "failed"
                 /\ term[k].log # <<>> =>
                       /\ ~term[k].log[Len(term[k].log)].ok
                       /\ term[k].log[Len(term[k].log)].step \in {"close", "setsid"}
\* A step never shortens or rewrites the hook list of a live Command.
C10_HooksGrow ==
    \A c \in Cmds : cmd'[c].alive =>
        /\ Len(cmd'[c].hooks) \in {Len(cmd[c].hooks), Len(cmd[c].hooks) + 1}
        /\ SubSeq(cmd'[c].hooks, 1, Len(cmd[c].hooks)) = cmd[c].hooks
        /\ \A k \in Terms :
              (term[k].st = "unused" /\ term'[k].st # "unused" /\ term'[k].cmd = c)
                  => /\ term'[k].reg <=> Len(cmd'[c].hooks) = Len(cmd[c].hooks) + 1
                     /\ term'[k].st = "live" =>
                           cmd'[c].hooks[Len(cmd'[c].hooks)] = term'[k].owner
\* C10: an open that reaches the registration appends exactly one hook, the
\* number of its owner descriptor, to the launch specification, and nothing
\* but dropping the specification removes a hook; open succeeds at most once
\* per launch specification, and an open made after a successful one on the
\* same specification fails, in its hooks at a setsid or close when it gets
\* as far as running them.
C10_OncePerCommand == [][C10_HooksGrow /\ C10_AtMostOnce']_vars
C10_Witness ==
    \E j, k \in Terms :
        /\ j < k /\ Succeeded(j) /\ term[k].st = "failed" /\ term[k].cmd = term[j].cmd
        /\ term[k].log # <<>>

====
